---- MODULE Spec2Model ----
(***************************************************************************)
(* PyCESim: classical simulation of Coulomb explosion.                     *)
(*                                                                         *)
(* A state-machine model of src/PyCESim.py: the geometry class, the        *)
(* starting_conditions sampler (set_channel_list, generate_pool) and the   *)
(* CE_sim trajectory engine (make_timebins, run_sims, NewtonEquations,     *)
(* store_output, output_list_to_arr, output_list_to_df).                   *)
(*                                                                         *)
(* Real numbers are kept in fixed point: every quantity is an integer      *)
(* count of a stated unit, and every unit conversion of the code is the    *)
(* multiplication the code performs.  Random draws (numpy.random) are      *)
(* nondeterministic choices from finite samples of the draw's support.     *)
(* A Python exception ends the running call: pc returns to "idle" and      *)
(* result names the exception; the assignments made before it stay.        *)
(***************************************************************************)
EXTENDS Integers, Sequences, FiniteSets, TLC

(***************************************************************************)
(* Physical constants (fixed point).                                       *)
(***************************************************************************)
\* u = 1.660538921e-27 kg, in units of 1e-29 kg
u == 166
\* e = 1.60217663e-19 C, in units of 1e-20 C
e == 16
\* k = 8.9875517923e9 N m^2 C^-2, in units of 1e9
k == 9
\* the literal 1e-10 (Angstrom to metre); metres are counted in 1e-11 m
AngToM == 10
\* the literal 1 that sum_p is compared with; probabilities count 1e-4
POne == 10000
\* the literal 0.001 of set_channel_list, in the same unit
PTol == 10

(***************************************************************************)
(* Bounds of the model.                                                    *)
(***************************************************************************)
\* largest n_geoms passed to generate_pool
MaxGeoms == 2
\* largest point count of one time window
MaxCount == 5
\* largest nmax passed to generate_pool
MaxN == 2

(***************************************************************************)
(* Vectors and sequences.                                                  *)
(***************************************************************************)
Abs(x) == IF x < 0 THEN -x ELSE x

RECURSIVE SeqSum(_)
SeqSum(s) == IF Len(s) = 0 THEN 0 ELSE Head(s) + SeqSum(Tail(s))

RECURSIVE Concat(_)
Concat(ss) == IF Len(ss) = 0 THEN << >> ELSE Head(ss) \o Concat(Tail(ss))

SeqMin(s) == CHOOSE x \in {s[j] : j \in 1..Len(s)} : \A j \in 1..Len(s) : x <= s[j]
SeqMax(s) == CHOOSE x \in {s[j] : j \in 1..Len(s)} : \A j \in 1..Len(s) : x >= s[j]

Zeros(len) == [j \in 1..len |-> 0]
Vec3Add(a, b) == [c \in 1..3 |-> a[c] + b[c]]
Vec3Sub(a, b) == [c \in 1..3 |-> a[c] - b[c]]
Vec3Scale(a, f) == [c \in 1..3 |-> a[c] * f]
Dot3(a, b) == a[1] * b[1] + a[2] * b[2] + a[3] * b[3]
\* np.dot(rm, r) for a 3x3 matrix (a sequence of rows) and a 3-vector
MatVec(m, r) == [c \in 1..3 |-> Dot3(m[c], r)]
\* (A.dot(B)) for 3x3 matrices
MatMul(a, b) == [r \in 1..3 |-> [c \in 1..3 |->
                    a[r][1] * b[1][c] + a[r][2] * b[2][c] + a[r][3] * b[3][c]]]

\* integer square root of a perfect square
ISqrt(x) == CHOOSE r \in 0..x : r * r = x

(***************************************************************************)
(* RandRotationMatrix on the grid of random numbers where it is exact:     *)
(* theta and phi in quarter turns (randnums * 4), z in halves (randnums*2).*)
(***************************************************************************)
SinQ(q) == CASE q % 4 = 0 -> 0 [] q % 4 = 1 -> 1 [] q % 4 = 2 -> 0 [] OTHER -> -1
CosQ(q) == CASE q % 4 = 0 -> 1 [] q % 4 = 1 -> 0 [] q % 4 = 2 -> -1 [] OTHER -> 0

\* theta4 = 4*randnums[0], phi4 = 4*randnums[1], z2 = 2*randnums[2] (so z = z2)
RandRotationMatrix(theta4, phi4, z2) ==
    LET st == SinQ(theta4)
        ct == CosQ(theta4)
        \* V = (sin(phi) r, cos(phi) r, sqrt(2 - z)) with r = sqrt(z); the outer
        \* product V V^T holds r^2 = z, r sqrt(2-z) = sqrt(z (2-z)) and 2 - z
        rz == ISqrt(z2 * (2 - z2))
        VV == << << SinQ(phi4) * SinQ(phi4) * z2, SinQ(phi4) * CosQ(phi4) * z2, SinQ(phi4) * rz >>,
                 << SinQ(phi4) * CosQ(phi4) * z2, CosQ(phi4) * CosQ(phi4) * z2, CosQ(phi4) * rz >>,
                 << SinQ(phi4) * rz, CosQ(phi4) * rz, 2 - z2 >> >>
        Id == << <<1, 0, 0>>, <<0, 1, 0>>, <<0, 0, 1>> >>
        R  == << <<ct, st, 0>>, <<-st, ct, 0>>, <<0, 0, 1>> >>
        H  == [r \in 1..3 |-> [c \in 1..3 |-> VV[r][c] - Id[r][c]]]
    IN MatMul(H, R)

\* the random numbers random_rotation may draw (np.random.uniform(size=3) on the grid)
RandNums == { <<0, 0, 0>>, <<1, 0, 1>> }

\* random_rotation(r_list): one matrix, applied to every vector
random_rotation(r_list, randnums) ==
    LET rm == RandRotationMatrix(randnums[1], randnums[2], randnums[3])
    IN [j \in 1..Len(r_list) |-> MatVec(rm, r_list[j])]

(***************************************************************************)
(* State.  One geometry object, one starting_conditions object wrapping    *)
(* it, one CE_sim object wrapping that; variables carry the attribute      *)
(* names of the source.                                                    *)
(***************************************************************************)
VARIABLES
    \* control: the running call and its position, the last call's outcome
    pc, op, result,
    \* geometry(...) as last called: the object __init__ filled in
    built,
    \* starting_conditions attributes
    eq_geometry, multi_channel, channel_list, channel_p_list,
    method, n_geoms, random_rotate, T, wigner_sample_max, nmax, sigma,
    Pn_arr, samp_y0_list, samp_charges_list, samp_masses_list,
    samp_channel_list, samp_q_list, samp_n_list,
    \* locals of generate_pool that live across its loops
    i, charges, masses, new_geom, mode_idx, n_vib,
    \* CE_sim attributes
    timebins, tmin, tmax, n_t_steps, output_list, sim_counter,
    save_all, solution_list, output_arr, output_df,
    \* locals of run_sims and of the solver callback
    it, solution, eval_y, dydt,
    \* attributes that exist (reading any other raises AttributeError)
    attrs,
    \* history: the argument of the last set_channel_list / make_timebins call,
    \* the quantum numbers handed to calc_W and the Boltzmann draws made and
    \* tables built by the running (or last) generate_pool call
    h_supplied, h_windows, h_n_used, h_pn_draws, h_pn_built,
    \* history: whether a run_sims call has completed, and the records in
    \* output_list when the last one did
    h_last_run

ctlVars  == <<pc, op, result>>
geomVars == <<built>>
chanVars == <<multi_channel, channel_list, channel_p_list, h_supplied>>
poolVars == <<eq_geometry, method, n_geoms, random_rotate, T, wigner_sample_max,
              nmax, sigma, Pn_arr, samp_y0_list, samp_charges_list,
              samp_masses_list, samp_channel_list, samp_q_list, samp_n_list,
              i, charges, masses, new_geom, mode_idx, n_vib,
              h_n_used, h_pn_draws, h_pn_built>>
timeVars == <<timebins, tmin, tmax, n_t_steps, h_windows>>
runVars  == <<output_list, sim_counter, save_all, solution_list, it, solution, eval_y, dydt>>
outVars  == <<output_arr, output_df, h_last_run>>

vars == <<pc, op, result, built, eq_geometry, multi_channel, channel_list,
          channel_p_list, method, n_geoms, random_rotate, T, wigner_sample_max,
          nmax, sigma, Pn_arr, samp_y0_list, samp_charges_list,
          samp_masses_list, samp_channel_list, samp_q_list, samp_n_list,
          i, charges, masses, new_geom, mode_idx, n_vib,
          timebins, tmin, tmax, n_t_steps, output_list, sim_counter,
          save_all, solution_list, output_arr, output_df, it, solution, eval_y, dydt, attrs,
          h_supplied, h_windows, h_n_used, h_pn_draws, h_pn_built, h_last_run>>

(***************************************************************************)
(* class geometry                                                          *)
(***************************************************************************)
\* numpy's arr.any() for an array of mode vectors / of frequencies
AnyModes(nm) == \E m \in 1..Len(nm) : \E a \in 1..Len(nm[m]) : \E c \in 1..3 : nm[m][a][c] /= 0
AnyOmegas(om) == \E m \in 1..Len(om) : om[m] /= 0

\* check_normal_modes: the reweighted modes nmodes2 stay local, because the
\* dot-product loop reads n_atoms, a name bound nowhere in the module, as soon
\* as there is one mode: NameError before self.nmodes_weighted is assigned.
\* With no mode at all np.max of the empty residual matrix raises ValueError.
check_normal_modes(obj) ==
    IF Len(obj.nmodes) >= 1
    THEN [raised |-> "NameError", obj |-> obj]
    ELSE [raised |-> "ValueError", obj |-> obj]

\* geometry.__init__ (the attributes the model reads)
GeometryInit(atom_coords, atom_masses, nmodes, omegas) ==
    LET g0 == [natoms |-> Len(atom_coords), atom_coords |-> atom_coords,
               atom_masses |-> atom_masses, attrs |-> {},
               nmodes |-> << >>, omegas |-> << >>, nmodes_weighted |-> << >>,
               com |-> << >>, atom_coords_com |-> << >>]
    IN IF AnyModes(nmodes)
       THEN LET g1 == [g0 EXCEPT !.nmodes = nmodes, !.attrs = @ \cup {"nmodes"}]
                chk == check_normal_modes(g1)
            IN  IF chk.raised /= "no"
                THEN [raised |-> chk.raised, obj |-> chk.obj]
                ELSE [raised |-> "no",
                      obj |-> IF AnyOmegas(omegas)
                              THEN [chk.obj EXCEPT !.omegas = omegas, !.attrs = @ \cup {"omegas"}]
                              ELSE chk.obj]
       ELSE [raised |-> "no",
             obj |-> IF AnyOmegas(omegas)
                     THEN [g0 EXCEPT !.omegas = omegas, !.attrs = @ \cup {"omegas"}]
                     ELSE g0]

\* mutant: the centre is the plain mean of the coordinates, masses ignored
find_com_unweighted(g) ==
    [g EXCEPT !.com = [c \in 1..3 |->
                         SeqSum([a \in 1..g.natoms |-> g.atom_coords[a][c]]) \div g.natoms],
              !.attrs = @ \cup {"com"}]

\* find_com: mass-weighted mean of the coordinates
find_com(g) ==
    LET mass_product == [c \in 1..3 |->
            SeqSum([a \in 1..g.natoms |-> g.atom_coords[a][c] * g.atom_masses[a]])]
        mass_sum == SeqSum(g.atom_masses)
    IN [g EXCEPT !.com = [c \in 1..3 |-> mass_product[c] \div mass_sum],
                 !.attrs = @ \cup {"com"}]

\* com_geometry: shift the geometry so the centre of mass is the origin
com_geometry(g) ==
    LET g1 == find_com(g)
    IN [g1 EXCEPT !.atom_coords_com = [a \in 1..g1.natoms |-> Vec3Sub(g1.atom_coords[a], g1.com)],
                  !.attrs = @ \cup {"atom_coords_com"}]

(***************************************************************************)
(* Utility functions of the sampler (fixed point).                         *)
(***************************************************************************)
\* exp(-s) in thousandths for an integer s >= 0; never 0, as exp never is
ExpNegMilli(s) ==
    CASE s = 0 -> 1000 [] s = 1 -> 368 [] s = 2 -> 135 [] s = 3 -> 50
      [] s = 4 -> 18 [] s = 5 -> 7 [] s = 6 -> 2 [] OTHER -> 1

\* n! L_n(x), the Laguerre polynomial scaled to integers:
\* (m+1) L_{m+1}(x) = (2m + 1 - x) L_m(x) - m L_{m-1}(x)
RECURSIVE LaguerreFact(_, _)
LaguerreFact(n, x) ==
    IF n = 0 THEN 1
    ELSE IF n = 1 THEN 1 - x
    ELSE (2 * (n - 1) + 1 - x) * LaguerreFact(n - 1, x)
         - (n - 1) * (n - 1) * LaguerreFact(n - 2, x)

RECURSIVE Factorial(_)
Factorial(n) == IF n <= 0 THEN 1 ELSE n * Factorial(n - 1)

RECURSIVE Pow(_, _)
Pow(b, x) == IF x <= 0 THEN 1 ELSE b * Pow(b, x - 1)

\* calc_W(P, Q, n) in thousandths, times n! (so that it stays an integer)
calc_W(P, Q, n) ==
    IF n > 0
    THEN LET rhosquare == 2 * (P * P + Q * Q)
         IN (IF n % 2 = 0 THEN 1 ELSE -1) * LaguerreFact(n, rhosquare)
              * ExpNegMilli(rhosquare \div 2)
    ELSE ExpNegMilli(Q * Q + P * P)

\* mutant: the sign of W is dropped
Accepts_abs(P, Q, n, threshold) == Abs(calc_W(P, Q, n)) > threshold * Factorial(n)

\* the test W > np.random.uniform(0,1), the threshold in thousandths
Accepts(P, Q, n, threshold) == calc_W(P, Q, n) > threshold * Factorial(n)

\* calc_Pn(omega_cm, T, n): exp(-En/(kb T))/Z = x^n (1 - x) with
\* x = exp(-hbar omega/(kb T)).  Frequencies and temperatures are counted in
\* units with x = 2^-(omega_cm \div T); the value is in units of
\* 2^-(MaxN * (omega_cm \div T)).
calc_Pn(omega_cm, T_a, n) ==
    IF T_a > 0
    THEN LET m == omega_cm \div T_a
         IN (Pow(2, m) - 1) * Pow(2, m * (MaxN - 1 - n))
    ELSE IF n = 0 THEN 1 ELSE 0

\* bohr_to_angstrom / sqrt(cm_to_hartree * u_to_amu) = 5.8 Angstrom, the
\* constant part of the displacement of line 433, in Angstrom
WignerScale == 6

\* (random_Q/freq_factor) * nmode[i,c] * sqrt(1/(mass*u_to_amu)) * bohr_to_angstrom
\* on the grid where omega * mass is a perfect square
WignerDisplacement(random_Q, omega, nm, mass) ==
    (random_Q * nm * WignerScale) \div ISqrt(omega * mass)

\* the support sample of np.random.normal(loc=0, scale=s)
NormalDraws(s) == IF s = 0 THEN {0} ELSE {-2 * s, 0}

\* the support sample of np.random.uniform(-m, m): [-m, m) holds -m and 0
UniformDraws(m) == {-m, 0}

\* the support sample of np.random.uniform(0, 1), in thousandths
Thresholds == {0, 500, 999}

(***************************************************************************)
(* class ce_channel, class starting_conditions                             *)
(***************************************************************************)
\* ce_channel.__init__
ce_channel(chs, p) == [charges |-> chs, p |-> p]

\* starting_conditions.set_channel_list
set_channel_list(channel_list_a) ==
    /\ pc = "idle"
    /\ LET plist == [j \in 1..Len(channel_list_a) |-> channel_list_a[j].p]
           sum_p == SeqSum(plist)
       IN IF Abs(sum_p - POne) > PTol
          THEN \* print("Channel probabilities don't sum to 1!")
               UNCHANGED <<multi_channel, channel_list, channel_p_list>>
          ELSE /\ channel_list' = channel_list_a
               /\ channel_p_list' = plist
               /\ multi_channel' = TRUE
    /\ h_supplied' = channel_list_a
    /\ op' = "set_channel_list"
    /\ result' = "ok"
    /\ UNCHANGED <<pc, geomVars, poolVars, timeVars, runVars, outVars, attrs>>

\* sigma_to_array: a single number becomes a one-element array
sigma_to_array(sigma_a) ==
    IF sigma_a.kind = "number" THEN << sigma_a.v >> ELSE sigma_a.v

\* mutant: the two asserts are gone
WignerPrecondition_none(g) == "no"

\* the precondition of Wigner sampling (lines 347-348): reading an attribute
\* that __init__ never set raises AttributeError, an all-zero array fails
\* the assert
WignerPrecondition(g) ==
    IF "nmodes" \notin g.attrs THEN "AttributeError"
    ELSE IF ~AnyModes(g.nmodes) THEN "AssertionError"
    ELSE IF "omegas" \notin g.attrs THEN "AttributeError"
    ELSE IF ~AnyOmegas(g.omegas) THEN "AssertionError"
    ELSE "no"

\* the level-population table of lines 375-381
BuildPn(g, T_a, nmax_a) ==
    [m \in 1..Len(g.nmodes) |->
        [n \in 1..nmax_a |->
            IF m <= Len(g.omegas) THEN calc_Pn(g.omegas[m], T_a, n - 1) ELSE 0]]

\* generate_pool, lines 343-381: everything before the loop over trajectories
generate_pool_begin(n_geoms_a, method_a, random_rotate_a, sigma_a, wigner_sample_max_a, T_a, nmax_a) ==
    /\ pc = "idle"
    /\ op' = "generate_pool"
    /\ method' = method_a
    /\ LET pre == IF method_a = "wigner" THEN WignerPrecondition(eq_geometry) ELSE "no"
       IN IF pre /= "no"
          THEN /\ result' = pre
               /\ pc' = "idle"
               /\ h_n_used' = {}
               /\ h_pn_draws' = 0
               /\ h_pn_built' = FALSE
               /\ UNCHANGED <<eq_geometry, n_geoms, random_rotate, T, wigner_sample_max,
                              nmax, sigma, Pn_arr, samp_y0_list, samp_charges_list,
                              samp_masses_list, samp_channel_list, samp_q_list,
                              samp_n_list, i, attrs>>
          ELSE /\ n_geoms' = n_geoms_a
               /\ random_rotate' = random_rotate_a
               /\ T' = T_a
               /\ wigner_sample_max' = wigner_sample_max_a
               /\ nmax' = nmax_a
               /\ samp_y0_list' = << >>
               /\ samp_charges_list' = << >>
               /\ samp_masses_list' = << >>
               /\ samp_channel_list' = << >>
               /\ samp_q_list' = IF method_a = "wigner" THEN << >> ELSE samp_q_list
               /\ attrs' = attrs \cup {"samp_y0_list"}
               /\ eq_geometry' = com_geometry(eq_geometry)
               /\ sigma' = IF method_a = "gaussian" THEN sigma_to_array(sigma_a) ELSE sigma
               /\ h_n_used' = {}
               /\ h_pn_draws' = 0
               /\ i' = 0
               /\ IF method_a = "wigner" /\ T_a > 0
                  THEN IF nmax_a > 0 /\ Len(eq_geometry.omegas) > Len(eq_geometry.nmodes)
                       THEN \* Pn_arr has one row per mode: IndexError
                            /\ result' = "IndexError"
                            /\ pc' = "idle"
                            /\ h_pn_built' = FALSE
                            /\ Pn_arr' = [m \in 1..Len(eq_geometry.nmodes) |->
                                             [n \in 1..nmax_a |->
                                                IF n = 1 THEN calc_Pn(eq_geometry.omegas[m], T_a, 0)
                                                ELSE 0]]
                            /\ samp_n_list' = << >>
                       ELSE /\ Pn_arr' = BuildPn(eq_geometry, T_a, nmax_a)
                            /\ samp_n_list' = << >>
                            /\ h_pn_built' = TRUE
                            /\ result' = "running"
                            /\ pc' = "gen_loop"
                  ELSE /\ h_pn_built' = FALSE
                       /\ result' = "running"
                       /\ pc' = "gen_loop"
                       /\ UNCHANGED <<Pn_arr, samp_n_list>>
    /\ UNCHANGED <<geomVars, chanVars, timeVars, runVars, outVars,
                   charges, masses, new_geom, mode_idx, n_vib>>

\* np.random.choice(a, p=plist) raises ValueError unless plist is a
\* distribution: no negative entry, and a sum that is 1 to within 1.5e-8
ChoiceRaises(plist) ==
    \/ Len(plist) = 0
    \/ \E j \in 1..Len(plist) : plist[j] < 0
    \/ SeqSum(plist) /= POne

\* the entries np.random.choice can return
ChoiceSupport(plist) == {j \in 1..Len(plist) : plist[j] > 0}

\* lines 387-393: the charge and mass vectors of one trajectory, j the drawn channel
ChargesOf(j) ==
    IF multi_channel
    THEN [a \in 1..Len(channel_list[j].charges) |-> channel_list[j].charges[a] * e]
    ELSE [a \in 1..eq_geometry.natoms |-> 1 * e]

\* mutant: the masses are left in amu
MassesOf_amu(g) == g.atom_masses

MassesOf(g) == [a \in 1..Len(g.atom_masses) |-> g.atom_masses[a] * u]

\* the channels the draw of line 388 can return (0: single-channel, no draw)
ChannelDraws == IF multi_channel THEN ChoiceSupport(channel_p_list) ELSE {0}

ChannelDrawRaises == multi_channel /\ ChoiceRaises(channel_p_list)

\* lines 399-402: the sigma used for atom a; "unbound" when neither branch binds it
BlurSigma(a) ==
    IF Len(sigma) = 1 THEN <<"bound", sigma[1]>>
    ELSE IF Len(sigma) = eq_geometry.natoms THEN <<"bound", sigma[a]>>
    ELSE <<"unbound", 0>>

\* lines 445-453: the initial state vector, positions then zero velocities
MakeY0(natoms, r_list_rot) ==
    [x \in 1..(6 * natoms) |->
        IF x <= 3 * natoms THEN r_list_rot[((x - 1) \div 3) + 1][((x - 1) % 3) + 1] ELSE 0]

\* lines 445-457: rotate (or not), fill y0, append the trajectory to the ensemble
EmitTrajectory(r_list, randnums) ==
    LET r_list_rot == IF random_rotate THEN random_rotation(r_list, randnums) ELSE r_list
    IN /\ samp_y0_list' = Append(samp_y0_list, MakeY0(eq_geometry.natoms, r_list_rot))
       /\ samp_charges_list' = Append(samp_charges_list, charges')
       /\ samp_masses_list' = Append(samp_masses_list, masses')
       /\ UNCHANGED samp_channel_list

\* the rotations one trajectory can draw (none is drawn without random_rotate)
RotationDraws == IF random_rotate THEN RandNums ELSE { <<0, 0, 0>> }

\* the running generate_pool call ends with an exception
PoolRaise(exc) ==
    /\ pc' = "idle"
    /\ result' = exc
    /\ UNCHANGED <<op, geomVars, chanVars, poolVars, timeVars, runVars, outVars, attrs>>

\* the loop over trajectories is exhausted: generate_pool returns
generate_pool_end ==
    /\ pc = "gen_loop"
    /\ i >= n_geoms
    /\ pc' = "idle"
    /\ result' = "ok"
    /\ UNCHANGED <<op, geomVars, chanVars, poolVars, timeVars, runVars, outVars, attrs>>

\* one trajectory of the Gaussian method, lines 384-407 and 445-457
generate_pool_gaussian ==
    /\ pc = "gen_loop"
    /\ i < n_geoms
    /\ method = "gaussian"
    /\ IF ChannelDrawRaises THEN PoolRaise("ValueError")
       ELSE IF \E a \in 1..eq_geometry.natoms : BlurSigma(a)[1] = "unbound"
       THEN PoolRaise("UnboundLocalError")
       ELSE LET g == eq_geometry
                D == UNION {NormalDraws(BlurSigma(a)[2]) : a \in 1..g.natoms}
            IN \E j \in ChannelDraws, randnums \in RotationDraws,
                  noise \in [1..g.natoms -> [1..3 -> D]] :
                 /\ \A a \in 1..g.natoms : \A c \in 1..3 :
                        noise[a][c] \in NormalDraws(BlurSigma(a)[2])
                 /\ charges' = ChargesOf(j)
                 /\ masses' = MassesOf(g)
                 /\ LET r_list == [a \in 1..g.natoms |->
                            [c \in 1..3 |-> (g.atom_coords_com[a][c] + noise[a][c]) * AngToM]]
                    IN EmitTrajectory(r_list, randnums)
                 /\ i' = i + 1
                 /\ UNCHANGED <<ctlVars, geomVars, chanVars, timeVars, runVars, outVars, attrs,
                                eq_geometry, method, n_geoms, random_rotate, T,
                                wigner_sample_max, nmax, sigma, Pn_arr, samp_q_list,
                                samp_n_list, new_geom, mode_idx, n_vib,
                                h_n_used, h_pn_draws, h_pn_built>>

\* the modes the loop of line 412 visits: zip stops at the shorter list
ZipLen(g) == IF Len(g.nmodes_weighted) < Len(g.omegas)
             THEN Len(g.nmodes_weighted) ELSE Len(g.omegas)

\* one trajectory of the Wigner method starts, lines 384-393 and 410-412
generate_pool_wigner_start ==
    /\ pc = "gen_loop"
    /\ i < n_geoms
    /\ method = "wigner"
    /\ IF ChannelDrawRaises THEN PoolRaise("ValueError")
       ELSE IF "nmodes_weighted" \notin eq_geometry.attrs THEN PoolRaise("AttributeError")
       ELSE \E j \in ChannelDraws :
                 /\ charges' = ChargesOf(j)
                 /\ masses' = MassesOf(eq_geometry)
                 /\ new_geom' = eq_geometry.atom_coords_com
                 /\ mode_idx' = 1
                 /\ pc' = "wig_mode"
                 /\ UNCHANGED <<op, result, geomVars, chanVars, timeVars, runVars, outVars,
                                attrs, eq_geometry, method, n_geoms, random_rotate, T,
                                wigner_sample_max, nmax, sigma, Pn_arr, samp_y0_list,
                                samp_charges_list, samp_masses_list, samp_channel_list,
                                samp_q_list, samp_n_list, i, n_vib,
                                h_n_used, h_pn_draws, h_pn_built>>

\* mutant: the T = 0 branch is missing, every level below nmax can be taken
VibStates_any == 0..(nmax - 1)

\* lines 418-424: the vibrational states the next mode can be given: at T > 0
\* what np.random.choice(n_list, p=Pn_scaled) can return, else 0.  mode_counter
\* is set to 0 at line 410 and never advanced, so row 0 of Pn_arr serves every
\* mode.
VibStates ==
    IF T > 0
    THEN {n - 1 : n \in {x \in 1..Len(Pn_arr[1]) : Pn_arr[1][x] > 0}}
    ELSE {0}

generate_pool_wigner_mode ==
    /\ pc = "wig_mode"
    /\ mode_idx <= ZipLen(eq_geometry)
    /\ IF VibStates = {}
       THEN \* np.random.choice of an empty n_list
            PoolRaise("ValueError")
       ELSE \E n \in VibStates :
              /\ n_vib' = n
              /\ h_pn_draws' = IF T > 0 THEN h_pn_draws + 1 ELSE h_pn_draws
              /\ pc' = "wig_draw"
              /\ UNCHANGED <<op, result, geomVars, chanVars, timeVars, runVars,
                             outVars, attrs, eq_geometry, method, n_geoms,
                             random_rotate, T, wigner_sample_max, nmax, sigma,
                             Pn_arr, samp_y0_list, samp_charges_list,
                             samp_masses_list, samp_channel_list, samp_q_list,
                             samp_n_list, i, charges, masses, new_geom, mode_idx,
                             h_n_used, h_pn_built>>

\* lines 425-438: one pass of the rejection loop
generate_pool_wigner_draw ==
    /\ pc = "wig_draw"
    /\ \E random_Q \in UniformDraws(wigner_sample_max),
          random_P \in UniformDraws(wigner_sample_max),
          threshold \in Thresholds :
         LET g == eq_geometry
             nmode == g.nmodes_weighted[mode_idx]
             omega == g.omegas[mode_idx]
         IN /\ h_n_used' = h_n_used \cup {n_vib}
            /\ IF Accepts(random_P, random_Q, n_vib, threshold)
               THEN /\ new_geom' = [a \in 1..g.natoms |->
                            [c \in 1..3 |-> new_geom[a][c]
                                + WignerDisplacement(random_Q, omega, nmode[a][c], g.atom_masses[a])]]
                    /\ samp_n_list' = IF T > 0 THEN Append(samp_n_list, n_vib) ELSE samp_n_list
                    /\ samp_q_list' = Append(samp_q_list, random_Q)
                    /\ mode_idx' = mode_idx + 1
                    /\ pc' = "wig_mode"
               ELSE UNCHANGED <<new_geom, samp_n_list, samp_q_list, mode_idx, pc>>
    /\ UNCHANGED <<op, result, geomVars, chanVars, timeVars, runVars, outVars, attrs,
                   eq_geometry, method, n_geoms, random_rotate, T, wigner_sample_max,
                   nmax, sigma, Pn_arr, samp_y0_list, samp_charges_list,
                   samp_masses_list, samp_channel_list, i, charges, masses, n_vib,
                   h_pn_draws, h_pn_built>>

\* lines 440-457: every mode is applied; convert to metres, rotate, append
generate_pool_wigner_emit ==
    /\ pc = "wig_mode"
    /\ mode_idx > ZipLen(eq_geometry)
    /\ \E randnums \in RotationDraws :
         LET r_list == [a \in 1..eq_geometry.natoms |-> Vec3Scale(new_geom[a], AngToM)]
         IN /\ charges' = charges
            /\ masses' = masses
            /\ EmitTrajectory(r_list, randnums)
    /\ i' = i + 1
    /\ pc' = "gen_loop"
    /\ UNCHANGED <<op, result, geomVars, chanVars, timeVars, runVars, outVars, attrs,
                   eq_geometry, method, n_geoms, random_rotate, T, wigner_sample_max,
                   nmax, sigma, Pn_arr, samp_q_list, samp_n_list, new_geom, mode_idx,
                   n_vib, h_n_used, h_pn_draws, h_pn_built>>

(***************************************************************************)
(* class CE_sim                                                            *)
(***************************************************************************)
\* times are counted in units of 1/TimeScale, which np.linspace's division
\* by (num - 1) needs for num up to MaxCount
TimeScale == Factorial(MaxCount - 1)

\* mutant: the end point is left out (the step is (stop - start)/num)
linspace_open(start, stop, num) ==
    [j \in 1..num |-> start * TimeScale + ((j - 1) * (stop - start) * TimeScale) \div num]

\* np.linspace(start, stop, num)
linspace(start, stop, num) ==
    [j \in 1..num |->
        IF num = 1 THEN start * TimeScale
        ELSE start * TimeScale + ((j - 1) * (stop - start) * TimeScale) \div (num - 1)]

\* zip(t_range_list, n_step_list) stops at the shorter list
MinLen(a, b) == IF Len(a) < Len(b) THEN Len(a) ELSE Len(b)

\* make_timebins, with set_timebins: np.concatenate raises ValueError on an
\* empty list; np.min raises ValueError on an empty array, after self.timebins
\* is assigned and before tmin, tmax and n_t_steps are
make_timebins(t_range_list, n_step_list) ==
    /\ pc = "idle"
    /\ op' = "make_timebins"
    /\ h_windows' = [ranges |-> t_range_list, counts |-> n_step_list]
    /\ LET tsteps_list == [w \in 1..MinLen(t_range_list, n_step_list) |->
                              linspace(t_range_list[w][1], t_range_list[w][2], n_step_list[w])]
           tsteps_full == Concat(tsteps_list)
       IN IF Len(tsteps_list) = 0
          THEN /\ result' = "ValueError"
               /\ UNCHANGED <<timebins, tmin, tmax, n_t_steps, attrs>>
          ELSE IF Len(tsteps_full) = 0
          THEN /\ result' = "ValueError"
               /\ timebins' = tsteps_full
               /\ attrs' = attrs \cup {"timebins"}
               /\ UNCHANGED <<tmin, tmax, n_t_steps>>
          ELSE /\ result' = "ok"
               /\ timebins' = tsteps_full
               /\ tmin' = SeqMin(tsteps_full)
               /\ tmax' = SeqMax(tsteps_full)
               /\ n_t_steps' = Len(tsteps_full)
               /\ attrs' = attrs \cup {"timebins", "tmax"}
    /\ UNCHANGED <<pc, geomVars, chanVars, poolVars, runVars, outVars>>

\* mutant: the charge of the first atom is used twice
CoulombForce_q1q1(r1, r2, q1, q2) ==
    LET r12 == Vec3Sub(r1, r2)
    IN [num |-> Vec3Scale(r12, k * q1 * q1), mag2 |-> Dot3(r12, r12)]

\* CoulombForce(r1, r2, q1, q2) = k q1 q2 r12 / |r12|^3, kept exact as the
\* numerator vector k q1 q2 r12 over the cube of the square root of mag2 = |r12|^2
CoulombForce(r1, r2, q1, q2) ==
    LET r12 == Vec3Sub(r1, r2)
    IN [num |-> Vec3Scale(r12, k * q1 * q2), mag2 |-> Dot3(r12, r12)]

\* force += term: a force is a sum of terms, one numerator vector per distinct
\* |r12|^2; the empty sum is np.zeros((3,))
ForceAdd(force, term) ==
    [d \in (DOMAIN force) \cup {term.mag2} |->
        IF d \in DOMAIN force
        THEN IF d = term.mag2 THEN Vec3Add(force[d], term.num) ELSE force[d]
        ELSE term.num]

ZeroForce == [d \in {} |-> <<0, 0, 0>>]

\* the loop of lines 567-571 over the atoms ks (a sequence), for atom n
RECURSIVE ForceOn(_, _, _, _)
ForceOn(y, n, ks, q) ==
    IF Len(ks) = 0 THEN ZeroForce
    ELSE LET a  == ks[Len(ks)]
             r1 == << y[3 * n + 1], y[3 * n + 2], y[3 * n + 3] >>
             r2 == << y[3 * a + 1], y[3 * a + 2], y[3 * a + 3] >>
             rest == ForceOn(y, n, SubSeq(ks, 1, Len(ks) - 1), q)
         IN IF a /= n THEN ForceAdd(rest, CoulombForce(r1, r2, q[n + 1], q[a + 1]))
            ELSE rest

\* NewtonEquations(t, y): atoms are numbered from 0 as in the source; entry x
\* (from 1) of dydt is a velocity for x <= 3 n_atoms, and otherwise the
\* acceleration component force[c] / masses[n], kept as the pair of the two
NewtonEquations(y) ==
    LET q == samp_charges_list[sim_counter + 1]
        m == samp_masses_list[sim_counter + 1]
        n_atoms == Len(y) \div 6
        atoms == [a \in 1..n_atoms |-> a - 1]
    IN [x \in 1..Len(y) |->
          IF x <= 3 * n_atoms
          THEN y[3 * n_atoms + x]
          ELSE LET n == (x - 3 * n_atoms - 1) \div 3
                   c == ((x - 3 * n_atoms - 1) % 3) + 1
                   force == ForceOn(y, n, atoms, q)
               IN [force |-> [d \in DOMAIN force |-> force[d][c]], mass |-> m[n + 1]]]

\* whether two atoms of state y coincide: CoulombForce then divides by zero
\* and the derivative holds nan
Singular(y) ==
    \E a, b \in 1..(Len(y) \div 6) :
        a /= b /\ \A c \in 1..3 : y[3 * (a - 1) + c] = y[3 * (b - 1) + c]

\* a state later on the trajectory of y0: the atoms where they started, moving
\* radially (solve_ivp's states are not computed here; this is one of them)
Moving(y0) ==
    LET n3 == Len(y0) \div 2
    IN [x \in 1..Len(y0) |-> IF x <= n3 THEN y0[x] ELSE y0[x - n3] \div AngToM]

\* states the solver hands to the callback while integrating from y0
EvalStates(y0) == {y0, Moving(y0)}

\* states the solver can report at the last requested time
FinalStates(y0) == {y0, Moving(y0)}

\* solve_ivp's validation of t_eval against t_span = [0, tmax]
TEvalRaises ==
    \/ \E j \in 1..Len(timebins) : timebins[j] < 0 \/ timebins[j] > tmax
    \/ tmax > 0 /\ \E j \in 1..(Len(timebins) - 1) : timebins[j + 1] - timebins[j] <= 0

RunRaise(exc) ==
    /\ pc' = "idle"
    /\ result' = exc

\* run_sims, lines 524-528, and the start of the loop over samp_y0_list
run_sims_begin(save_all_a) ==
    /\ pc = "idle"
    /\ op' = "run_sims"
    /\ output_list' = << >>
    /\ save_all' = save_all_a
    /\ solution_list' = IF save_all_a THEN << >> ELSE solution_list
    /\ sim_counter' = 0
    /\ it' = 0
    /\ attrs' = attrs \cup {"output_list"}
    /\ IF "samp_y0_list" \notin attrs
       THEN RunRaise("AttributeError")
       ELSE /\ pc' = "run_loop"
            /\ result' = "running"
    /\ UNCHANGED <<geomVars, chanVars, poolVars, timeVars, outVars, solution, eval_y, dydt>>

\* the loop over samp_y0_list is exhausted: run_sims returns
run_sims_end ==
    /\ pc = "run_loop"
    /\ it >= Len(samp_y0_list)
    /\ pc' = "idle"
    /\ result' = "ok"
    /\ h_last_run' = [done |-> TRUE, records |-> output_list]
    /\ UNCHANGED <<op, geomVars, chanVars, poolVars, timeVars, runVars, attrs,
                   output_arr, output_df>>

\* line 530: solve_ivp on the next initial state, calling back NewtonEquations.
\* The solver returns the columns of the requested times it reached: all of
\* them, or (status -1) fewer.  A state with coincident atoms gives nan
\* derivatives, and the last requested time is not reached.
run_sims_integrate ==
    /\ pc = "run_loop"
    /\ it < Len(samp_y0_list)
    /\ LET y0 == samp_y0_list[it + 1]
       IN IF "tmax" \notin attrs
          THEN /\ RunRaise("AttributeError")
               /\ UNCHANGED <<solution, eval_y, dydt, solution_list>>
          ELSE IF TEvalRaises
          THEN /\ RunRaise("ValueError")
               /\ UNCHANGED <<solution, eval_y, dydt, solution_list>>
          ELSE \E y \in EvalStates(y0), yf \in FinalStates(y0), reached \in BOOLEAN :
                 /\ eval_y' = y
                 /\ dydt' = NewtonEquations(y)
                 /\ solution' = IF reached /\ ~Singular(y) /\ Len(timebins) > 0
                                THEN [cols |-> Len(timebins), last |-> yf]
                                ELSE [cols |-> 0, last |-> << >>]
                 /\ solution_list' = IF save_all THEN Append(solution_list, solution')
                                     ELSE solution_list
                 /\ pc' = "run_store"
                 /\ UNCHANGED result
    /\ UNCHANGED <<op, geomVars, chanVars, poolVars, timeVars, outVars, attrs,
                   output_list, sim_counter, save_all, it>>

\* store_output(solution): one row per atom, the final velocity, the charge,
\* the mass and the trajectory counter
store_output(sol) ==
    LET q == samp_charges_list[sim_counter + 1]
        m == samp_masses_list[sim_counter + 1]
        n_atoms == Len(q)
    IN [a \in 1..n_atoms |->
          << sol.last[(n_atoms + (a - 1)) * 3 + 1],
             sol.last[(n_atoms + (a - 1)) * 3 + 2],
             sol.last[(n_atoms + (a - 1)) * 3 + 3],
             q[a], m[a], sim_counter >>]

\* line 533: self.store_output(solution); column n_t_steps - 1 must exist
run_sims_store ==
    /\ pc = "run_store"
    /\ IF n_t_steps > solution.cols
       THEN /\ RunRaise("IndexError")
            /\ UNCHANGED output_list
       ELSE /\ output_list' = Append(output_list, store_output(solution))
            /\ pc' = "run_incr"
            /\ UNCHANGED result
    /\ UNCHANGED <<op, geomVars, chanVars, poolVars, timeVars, outVars, attrs,
                   sim_counter, save_all, solution_list, it, solution, eval_y, dydt>>

\* mutant: the loop moves on but the cursor is not incremented
run_sims_incr_stuck ==
    /\ pc = "run_incr"
    /\ it' = it + 1
    /\ pc' = "run_loop"
    /\ UNCHANGED <<op, result, geomVars, chanVars, poolVars, timeVars, outVars, attrs,
                   output_list, sim_counter, save_all, solution_list, solution, eval_y, dydt>>

\* line 536: self.sim_counter += 1, and the loop moves to the next y0
run_sims_incr ==
    /\ pc = "run_incr"
    /\ sim_counter' = sim_counter + 1
    /\ it' = it + 1
    /\ pc' = "run_loop"
    /\ UNCHANGED <<op, result, geomVars, chanVars, poolVars, timeVars, outVars, attrs,
                   output_list, save_all, solution_list, solution, eval_y, dydt>>

\* np.vstack(self.output_list)
VStack(list) == Concat(list)

\* output_list_to_arr: AttributeError before the first run_sims, ValueError
\* (np.vstack of nothing) on an empty output_list
ToArrRaises ==
    IF "output_list" \notin attrs THEN "AttributeError"
    ELSE IF Len(output_list) = 0 THEN "ValueError"
    ELSE "no"

output_list_to_arr ==
    /\ pc = "idle"
    /\ op' = "output_list_to_arr"
    /\ IF ToArrRaises /= "no"
       THEN /\ result' = ToArrRaises
            /\ UNCHANGED <<output_arr, attrs>>
       ELSE /\ result' = "ok"
            /\ output_arr' = VStack(output_list)
            /\ attrs' = attrs \cup {"output_arr"}
    /\ UNCHANGED <<pc, geomVars, chanVars, poolVars, timeVars, runVars, output_df, h_last_run>>

\* output_list_to_df: the table is made of self.output_arr when that exists,
\* and only otherwise (the bare except) of a fresh output_list_to_arr()
output_list_to_df ==
    /\ pc = "idle"
    /\ op' = "output_list_to_df"
    /\ IF "output_arr" \in attrs
       THEN /\ result' = "ok"
            /\ output_df' = output_arr
            /\ attrs' = attrs \cup {"output_df"}
            /\ UNCHANGED output_arr
       ELSE IF ToArrRaises /= "no"
       THEN /\ result' = ToArrRaises
            /\ UNCHANGED <<output_arr, output_df, attrs>>
       ELSE /\ result' = "ok"
            /\ output_arr' = VStack(output_list)
            /\ output_df' = VStack(output_list)
            /\ attrs' = attrs \cup {"output_arr", "output_df"}
    /\ UNCHANGED <<pc, geomVars, chanVars, poolVars, timeVars, runVars, h_last_run>>

\* geometry(atom_coords, atom_masses, nmodes=..., omegas=...)
geometry_init(atom_coords, atom_masses, nmodes, omegas) ==
    /\ pc = "idle"
    /\ op' = "geometry"
    /\ LET r == GeometryInit(atom_coords, atom_masses, nmodes, omegas)
       IN /\ built' = [raised |-> r.raised, obj |-> r.obj,
                       nmodes_a |-> nmodes, omegas_a |-> omegas]
          /\ result' = IF r.raised = "no" THEN "ok" ELSE r.raised
    /\ UNCHANGED <<pc, chanVars, poolVars, timeVars, runVars, outVars, attrs>>

\* the attribute values of freshly constructed starting_conditions and CE_sim
\* objects around geometry g (attrs tells which of them exist)
Fresh(g) ==
    /\ eq_geometry = g
    /\ multi_channel = FALSE
    /\ channel_list = << >>
    /\ channel_p_list = << >>
    /\ method = "none"
    /\ n_geoms = 0
    /\ random_rotate = FALSE
    /\ T = 0
    /\ wigner_sample_max = 0
    /\ nmax = 0
    /\ sigma = << >>
    /\ Pn_arr = << >>
    /\ samp_y0_list = << >>
    /\ samp_charges_list = << >>
    /\ samp_masses_list = << >>
    /\ samp_channel_list = << >>
    /\ samp_q_list = << >>
    /\ samp_n_list = << >>
    /\ i = 0
    /\ charges = << >>
    /\ masses = << >>
    /\ new_geom = << >>
    /\ mode_idx = 0
    /\ n_vib = 0
    /\ timebins = << >>
    /\ tmin = 0
    /\ tmax = 0
    /\ n_t_steps = 0
    /\ output_list = << >>
    /\ sim_counter = 0
    /\ save_all = FALSE
    /\ solution_list = << >>
    /\ output_arr = << >>
    /\ output_df = << >>
    /\ it = 0
    /\ solution = [cols |-> 0, last |-> << >>]
    /\ eval_y = << >>
    /\ dydt = << >>
    /\ attrs = {}
    /\ h_supplied = << >>
    /\ h_windows = [ranges |-> << >>, counts |-> << >>]
    /\ h_n_used = {}
    /\ h_pn_draws = 0
    /\ h_pn_built = FALSE
    /\ h_last_run = [done |-> FALSE, records |-> << >>]

\* starting_conditions(eq_geometry) and CE_sim(starting_conditions) on the
\* geometry just constructed
starting_conditions_init ==
    /\ pc = "idle"
    /\ built.raised = "no"
    /\ op' = "starting_conditions"
    /\ result' = "ok"
    /\ UNCHANGED <<pc, geomVars>>
    /\ eq_geometry' = built.obj
    /\ multi_channel' = FALSE
    /\ channel_list' = << >>
    /\ channel_p_list' = << >>
    /\ method' = "none"
    /\ n_geoms' = 0
    /\ random_rotate' = FALSE
    /\ T' = 0
    /\ wigner_sample_max' = 0
    /\ nmax' = 0
    /\ sigma' = << >>
    /\ Pn_arr' = << >>
    /\ samp_y0_list' = << >>
    /\ samp_charges_list' = << >>
    /\ samp_masses_list' = << >>
    /\ samp_channel_list' = << >>
    /\ samp_q_list' = << >>
    /\ samp_n_list' = << >>
    /\ i' = 0
    /\ charges' = << >>
    /\ masses' = << >>
    /\ new_geom' = << >>
    /\ mode_idx' = 0
    /\ n_vib' = 0
    /\ timebins' = << >>
    /\ tmin' = 0
    /\ tmax' = 0
    /\ n_t_steps' = 0
    /\ output_list' = << >>
    /\ sim_counter' = 0
    /\ save_all' = FALSE
    /\ solution_list' = << >>
    /\ output_arr' = << >>
    /\ output_df' = << >>
    /\ it' = 0
    /\ solution' = [cols |-> 0, last |-> << >>]
    /\ eval_y' = << >>
    /\ dydt' = << >>
    /\ attrs' = {}
    /\ h_supplied' = << >>
    /\ h_windows' = [ranges |-> << >>, counts |-> << >>]
    /\ h_n_used' = {}
    /\ h_pn_draws' = 0
    /\ h_pn_built' = FALSE
    /\ h_last_run' = [done |-> FALSE, records |-> << >>]

(***************************************************************************)
(* Inputs.                                                                 *)
(***************************************************************************)
NoModes == << >>

\* geometries as geometry(atom_coords, atom_masses) constructs them
GeomA == GeometryInit(<< <<0, 0, 0>>, <<2, 0, 0>> >>, <<1, 1>>, NoModes, << >>).obj
GeomB == GeometryInit(<< <<0, 0, 0>>, <<4, 0, 0>> >>, <<1, 3>>, NoModes, << >>).obj
GeomC == GeometryInit(<< <<0, 0, 0>>, <<3, 0, 0>>, <<0, 3, 0>> >>, <<1, 1, 1>>, NoModes, << >>).obj

\* two modes of a diatomic: a stretch along x and a displacement along y
ModeX == << <<-1, 0, 0>>, <<1, 0, 0>> >>
ModeY == << <<0, 1, 0>>, <<0, -1, 0>> >>

\* a geometry object that carries modes, frequencies and reweighted modes.
\* geometry.__init__ cannot produce one (check_normal_modes raises), so these
\* attributes are the ones a caller assigned on the object it hands to
\* starting_conditions, which reads them and nothing else of the modes.
WithModes(g, nmodes, omegas, weighted) ==
    [g EXCEPT !.nmodes = nmodes, !.omegas = omegas, !.nmodes_weighted = weighted,
              !.attrs = @ \cup {"nmodes"}
                          \cup (IF Len(omegas) > 0 THEN {"omegas"} ELSE {})
                          \cup (IF Len(weighted) > 0 THEN {"nmodes_weighted"} ELSE {})]

GeomW  == WithModes(GeomA, <<ModeX, ModeY>>, <<1, 4>>, <<ModeX, ModeY>>)
\* modes without frequencies, and frequencies that are all zero
GeomW0 == WithModes(GeomA, <<ModeX, ModeY>>, << >>, <<ModeX, ModeY>>)
GeomWZ == WithModes(GeomA, <<ModeX, ModeY>>, <<0, 0>>, <<ModeX, ModeY>>)

\* charge vectors of natoms entries, in elementary charges
ChargeVec(natoms, first, rest) == [a \in 1..natoms |-> IF a = 1 THEN first ELSE rest]

\* channel lists passed to set_channel_list: sums 1, 1, 1.2, 1.0004, 1
ChannelSets(natoms) ==
    { << ce_channel(ChargeVec(natoms, 2, 2), 10000) >>,
      << ce_channel(ChargeVec(natoms, 2, 1), 5000), ce_channel(ChargeVec(natoms, 1, 3), 5000) >>,
      << ce_channel(ChargeVec(natoms, 3, 3), 6000), ce_channel(ChargeVec(natoms, 4, 4), 6000) >>,
      << ce_channel(ChargeVec(natoms, 2, 1), 5000), ce_channel(ChargeVec(natoms, 1, 3), 5004) >>,
      << ce_channel(ChargeVec(natoms, 0, 1), 10000), ce_channel(ChargeVec(natoms, 6, 6), 0) >> }

\* sigma arguments: a number, one value per atom, and an array of another length
Sigmas(natoms) ==
    { [kind |-> "number", v |-> 0],
      [kind |-> "array", v |-> [a \in 1..natoms |-> 0]],
      [kind |-> "array", v |-> [a \in 1..natoms |-> IF a = natoms THEN 1 ELSE 0]],
      [kind |-> "array", v |-> [a \in 1..(natoms + 1) |-> 1]] }

InitWith(G) ==
    /\ pc = "idle"
    /\ op = "none"
    /\ result = "ok"
    /\ \E g \in G :
         /\ built = [raised |-> "no", obj |-> g, nmodes_a |-> << >>, omegas_a |-> << >>]
         /\ Fresh(g)

(***************************************************************************)
(* Specifications.                                                         *)
(***************************************************************************)
\* the sampler: channel lists and Gaussian pools
InitPool == InitWith({GeomB})

NextPool ==
    \/ \E cl \in ChannelSets(eq_geometry.natoms) : set_channel_list(cl)
    \/ \E ng \in 0..MaxGeoms, rr \in BOOLEAN, sg \in Sigmas(eq_geometry.natoms) :
          generate_pool_begin(ng, "gaussian", rr, sg, 3, 0, 5)
    \/ generate_pool_gaussian
    \/ generate_pool_end

SpecPool == InitPool /\ [][NextPool]_vars

(***************************************************************************)
(* Properties of the sampler.                                              *)
(***************************************************************************)
\* the pool in the ensemble lists was generated by the call that is running
\* or was the last to run: no set_channel_list came after it
PoolIsCurrent == op = "generate_pool"
PoolReturned == op = "generate_pool" /\ pc = "idle" /\ result = "ok"

SumOfP(cl) == SeqSum([j \in 1..Len(cl) |-> cl[j].p])
InElementary(chs) == [a \in 1..Len(chs) |-> chs[a] * e]

\* C1 (as claimed): when the channel list supplied last has probabilities
\* whose sum is off 1 by more than 0.001, the pool generated next holds unit
\* charges (+1 e) only; when the sum is within 0.001 of 1 the sampler is in
\* multi-channel mode and every charge vector of the pool is one of the
\* supplied channels'
C1_PoolFollowsLastSuppliedChannels ==
    (PoolIsCurrent /\ Len(h_supplied) > 0) =>
        IF Abs(SumOfP(h_supplied) - POne) > PTol
        THEN \A t \in 1..Len(samp_charges_list) :
                samp_charges_list[t] = [a \in 1..eq_geometry.natoms |-> e]
        ELSE /\ multi_channel
             /\ \A t \in 1..Len(samp_charges_list) :
                  \E j \in 1..Len(h_supplied) :
                     samp_charges_list[t] = InElementary(h_supplied[j].charges)

\* C3: a generate_pool call that returned left exactly n_geoms entries in each
\* of the three ensemble lists, all appended by that call (while it runs the
\* lists hold the i trajectories sampled so far); each initial state has
\* 6 natoms entries, the last 3 natoms of them zero; each charge and mass
\* vector has natoms entries; the masses are the geometry's, in kg
C3_PoolShape ==
    /\ (PoolIsCurrent /\ pc = "gen_loop") =>
          /\ Len(samp_y0_list) = i
          /\ Len(samp_charges_list) = i
          /\ Len(samp_masses_list) = i
    /\ PoolReturned =>
          /\ Len(samp_y0_list) = n_geoms
          /\ Len(samp_charges_list) = n_geoms
          /\ Len(samp_masses_list) = n_geoms
          /\ \A t \in 1..n_geoms :
               /\ Len(samp_y0_list[t]) = 6 * eq_geometry.natoms
               /\ \A x \in (3 * eq_geometry.natoms + 1)..(6 * eq_geometry.natoms) :
                     samp_y0_list[t][x] = 0
               /\ Len(samp_charges_list[t]) = eq_geometry.natoms
               /\ Len(samp_masses_list[t]) = eq_geometry.natoms
               /\ \A a \in 1..eq_geometry.natoms :
                     samp_masses_list[t][a] = eq_geometry.atom_masses[a] * u

\* a second pool of two trajectories has replaced a first one, in
\* multi-channel mode
C3_Witness ==
    /\ PoolReturned
    /\ n_geoms = 2
    /\ Len(samp_y0_list) = 2
    /\ multi_channel
    /\ random_rotate

\* C4 (as claimed): in multi-channel mode a returned pool records, for each
\* of its n_geoms trajectories, the channel drawn for it
C4_ChannelIndexRecorded ==
    (PoolReturned /\ multi_channel) =>
        /\ Len(samp_channel_list) = n_geoms
        /\ \A t \in 1..n_geoms :
             /\ samp_channel_list[t] \in 1..Len(channel_list)
             /\ samp_charges_list[t] = InElementary(channel_list[samp_channel_list[t]].charges)

\* sigma, as stored, is zero: a single zero or one zero per atom
SigmaIsZero ==
    /\ Len(sigma) \in {1, eq_geometry.natoms}
    /\ \A a \in 1..Len(sigma) : sigma[a] = 0

\* the positions of trajectory t are the centred equilibrium coordinates:
\* (sum of masses) * position = (sum of masses) * coordinate - sum of
\* mass * coordinate, in metres
AtCentredEquilibrium(t) ==
    LET g == eq_geometry
        mass_sum == SeqSum(g.atom_masses)
    IN \A a \in 1..g.natoms : \A c \in 1..3 :
          mass_sum * samp_y0_list[t][3 * (a - 1) + c]
            = (mass_sum * g.atom_coords[a][c]
                - SeqSum([b \in 1..g.natoms |-> g.atom_masses[b] * g.atom_coords[b][c]]))
              * AngToM

\* C5 (as claimed): with method 'gaussian' and sigma = 0, whatever the other
\* options, every trajectory starts at the centred equilibrium coordinates
C5_ZeroSigmaIsEquilibrium ==
    (PoolIsCurrent /\ method = "gaussian" /\ SigmaIsZero) =>
        \A t \in 1..Len(samp_y0_list) : AtCentredEquilibrium(t)

\* C5 (amended): the same with random_rotate = False
C5_ZeroSigmaIsEquilibriumUnrotated ==
    (PoolIsCurrent /\ method = "gaussian" /\ SigmaIsZero /\ ~random_rotate) =>
        \A t \in 1..Len(samp_y0_list) : AtCentredEquilibrium(t)

C5_Witness ==
    /\ PoolReturned
    /\ method = "gaussian"
    /\ SigmaIsZero
    /\ ~random_rotate
    /\ n_geoms = 2
    /\ Len(samp_y0_list) = 2

\* the sampler on geometries with and without modes: Wigner and Gaussian pools
InitWigner == InitWith({GeomA, GeomW, GeomW0, GeomWZ})

NextWigner ==
    \/ \E ng \in 0..MaxGeoms, wsm \in {0, 1}, Ta \in {0, 1}, nm \in 1..MaxN :
          generate_pool_begin(ng, "wigner", FALSE, [kind |-> "number", v |-> 0], wsm, Ta, nm)
    \/ \E ng \in 0..MaxGeoms :
          generate_pool_begin(ng, "gaussian", FALSE, [kind |-> "number", v |-> 0], 3, 0, 5)
    \/ generate_pool_gaussian
    \/ generate_pool_wigner_start
    \/ generate_pool_wigner_mode
    \/ generate_pool_wigner_draw
    \/ generate_pool_wigner_emit
    \/ generate_pool_end

SpecWigner == InitWigner /\ [][NextWigner]_vars

\* C6: in a Wigner pool at T = 0 every calc_W call is given n = 0, whatever
\* nmax and n_geoms are; no level is drawn from the Boltzmann distribution and
\* the level-population table is not built
C6_GroundStateAtZeroT ==
    (PoolIsCurrent /\ method = "wigner" /\ T = 0) =>
        /\ h_n_used \subseteq {0}
        /\ h_pn_draws = 0
        /\ ~h_pn_built
        /\ (pc = "wig_draw" => n_vib = 0)

\* a Wigner pool at T = 0 with nmax = 2 returned two trajectories of two modes
C6_Witness ==
    /\ PoolReturned
    /\ method = "wigner"
    /\ T = 0
    /\ nmax = 2
    /\ n_geoms = 2
    /\ Len(samp_y0_list) = 2
    /\ Len(samp_q_list) = 4
    /\ h_n_used = {0}

\* the geometry has no usable modes or no usable frequencies: the attribute
\* was never set, or holds zeros only
LacksModesOrFrequencies(g) ==
    \/ "nmodes" \notin g.attrs
    \/ "omegas" \notin g.attrs
    \/ \A m \in 1..Len(g.nmodes) : \A a \in 1..Len(g.nmodes[m]) : \A c \in 1..3 :
          g.nmodes[m][a][c] = 0
    \/ \A m \in 1..Len(g.omegas) : g.omegas[m] = 0

\* C7: a generate_pool(method='wigner') call on a geometry without modes or
\* without frequencies ends at once with an exception: it leaves the ensemble
\* lists as they were and samples nothing
C7_WignerNeedsModes ==
    [][(pc = "idle" /\ op' = "generate_pool" /\ method' = "wigner"
           /\ LacksModesOrFrequencies(eq_geometry))
        => (/\ pc' = "idle"
            /\ result' \in {"AttributeError", "AssertionError"}
            /\ UNCHANGED <<samp_y0_list, samp_charges_list, samp_masses_list,
                           samp_channel_list, samp_q_list, samp_n_list>>)]_vars

\* the failed Wigner call came after a Gaussian pool, which is still there
C7_Witness ==
    /\ op = "generate_pool"
    /\ method = "wigner"
    /\ LacksModesOrFrequencies(eq_geometry)
    /\ pc = "idle"
    /\ result = "AttributeError"
    /\ Len(samp_y0_list) = 2

(***************************************************************************)
(* The time windows.                                                       *)
(***************************************************************************)
Ranges == { <<0, 1>>, <<1, 5>>, <<5, 1>> }

SeqsUpTo2(S) == { << >> } \cup { <<x>> : x \in S } \cup { <<x, y>> : x \in S, y \in S }

InitTime == InitWith({GeomA})

NextTime ==
    \E rs \in SeqsUpTo2(Ranges), cs \in SeqsUpTo2(0..MaxCount) :
        Len(rs) = Len(cs) /\ make_timebins(rs, cs)

SpecTime == InitTime /\ [][NextTime]_vars

\* make_timebins returned and its result is the stored one
TimebinsStored == op = "make_timebins" /\ result = "ok"

\* samples stored before those of window w
OffsetOf(w) == SeqSum([v \in 1..(w - 1) |-> h_windows.counts[v]])

\* the stored sequence is the concatenation, in window order, of each window's
\* linearly spaced samples: sample j of a window of num points is
\* t_start + (j - 1) (t_end - t_start) / (num - 1), and t_start when num = 1
IsConcatenationOfWindows ==
    /\ Len(timebins) = SeqSum(h_windows.counts)
    /\ \A w \in 1..Len(h_windows.ranges) :
         LET t1  == h_windows.ranges[w][1]
             t2  == h_windows.ranges[w][2]
             num == h_windows.counts[w]
         IN \A j \in 1..num :
              IF num = 1 THEN timebins[OffsetOf(w) + j] = t1 * TimeScale
              ELSE (num - 1) * timebins[OffsetOf(w) + j]
                     = (num - 1) * t1 * TimeScale + (j - 1) * (t2 - t1) * TimeScale

MinMaxCountStored ==
    /\ n_t_steps = SeqSum(h_windows.counts)
    /\ \A j \in 1..Len(timebins) : tmin <= timebins[j] /\ timebins[j] <= tmax
    /\ \E j \in 1..Len(timebins) : timebins[j] = tmin
    /\ \E j \in 1..Len(timebins) : timebins[j] = tmax

SortedAndEndsAtMax ==
    /\ \A j \in 1..(Len(timebins) - 1) : timebins[j] <= timebins[j + 1]
    /\ timebins[Len(timebins)] = tmax

\* the windows are given in ascending order: none runs backwards and none
\* starts before the one before it ends
WindowsAscending ==
    /\ \A w \in 1..Len(h_windows.ranges) : h_windows.ranges[w][1] <= h_windows.ranges[w][2]
    /\ \A w \in 1..(Len(h_windows.ranges) - 1) :
          h_windows.ranges[w][2] <= h_windows.ranges[w + 1][1]

\* C8 (as claimed): for any windows and counts the stored timebins are the
\* concatenation of the windows' samples, sorted, n_t_steps long, with tmin
\* and tmax their extremes and the last sample the maximum
C8_TimebinsSorted ==
    TimebinsStored =>
        IsConcatenationOfWindows /\ MinMaxCountStored /\ SortedAndEndsAtMax

\* C8 (amended): concatenation, count and extremes for any windows that give
\* at least one sample; sorted and ending at the maximum when the windows are
\* given in ascending order
C8_TimebinsConcatenated ==
    TimebinsStored =>
        /\ IsConcatenationOfWindows
        /\ MinMaxCountStored
        /\ (WindowsAscending => SortedAndEndsAtMax)

\* the example of the claim: windows [(0,1),(1,5)] with counts [3,5]
C8_Witness ==
    /\ TimebinsStored
    /\ h_windows = [ranges |-> << <<0, 1>>, <<1, 5>> >>, counts |-> <<3, 5>>]
    /\ n_t_steps = 8
    /\ tmin = 0
    /\ tmax = 5 * TimeScale
    /\ timebins[4] = timebins[3]

(***************************************************************************)
(* The geometry constructor.                                               *)
(***************************************************************************)
ZeroMode == << <<0, 0, 0>>, <<0, 0, 0>> >>

GeometryArgs ==
    { << << <<0, 0, 0>>, <<2, 0, 0>> >>, <<1, 1>> >>,
      << << <<0, 0, 0>>, <<4, 0, 0>> >>, <<1, 3>> >>,
      << << <<0, 0, 0>>, <<0, 5, 0>> >>, <<4, 1>> >> }

InitGeom == InitWith({GeomA})

NextGeom ==
    \/ \E ga \in GeometryArgs,
          nm \in { << >>, <<ModeX>>, <<ModeX, ModeY>>, <<ZeroMode>> },
          om \in { << >>, <<1>>, <<1, 4>>, <<0>> } :
          geometry_init(ga[1], ga[2], nm, om)
    \/ starting_conditions_init
    \/ \E ng \in 1..MaxGeoms, Ta \in {0, 1} :
          generate_pool_begin(ng, "wigner", TRUE, [kind |-> "number", v |-> 0], 3, Ta, MaxN)

SpecGeom == InitGeom /\ [][NextGeom]_vars

\* C10 (as claimed): constructing a geometry with normal modes completes and
\* stores one reweighted mode per input mode in nmodes_weighted
C10_ModesReweighted ==
    (op = "geometry" /\ AnyModes(built.nmodes_a)) =>
        /\ built.raised = "no"
        /\ "nmodes_weighted" \in built.obj.attrs
        /\ Len(built.obj.nmodes_weighted) = Len(built.nmodes_a)

(***************************************************************************)
(* The trajectory engine.                                                  *)
(***************************************************************************)
\* two channels of equal weight whose charge vectors differ
TwoChannels(natoms) ==
    << ce_channel(ChargeVec(natoms, 2, 1), 5000), ce_channel(ChargeVec(natoms, 1, 3), 5000) >>

InitRun == InitWith({GeomB})

\* the caller's workflow: the sampler and the time bins are set up, in any
\* order and any number of times, before the first run; runs may be repeated
NotRunYet == "output_list" \notin attrs

NextRun ==
    \/ NotRunYet /\ set_channel_list(TwoChannels(eq_geometry.natoms))
    \/ \E ng \in 0..MaxGeoms :
          NotRunYet /\ generate_pool_begin(ng, "gaussian", FALSE, [kind |-> "number", v |-> 0], 3, 0, 5)
    \/ generate_pool_gaussian
    \/ generate_pool_end
    \/ NotRunYet /\ make_timebins(<< <<0, 1>> >>, <<2>>)
    \/ NotRunYet /\ make_timebins(<< <<0, 1>>, <<2, 5>> >>, <<2, 2>>)
    \/ NotRunYet /\ make_timebins(<< <<0, 1>>, <<1, 5>> >>, <<3, 5>>)
    \/ \E sa \in BOOLEAN : run_sims_begin(sa)
    \/ run_sims_integrate
    \/ run_sims_store
    \/ run_sims_incr
    \/ run_sims_end

SpecRun == InitRun /\ [][NextRun]_vars

RunCurrent == op = "run_sims"
RunCompleted == op = "run_sims" /\ pc = "idle" /\ result = "ok"

\* record r (from 1) is that of trajectory r - 1: one row per atom, with the
\* charge and the mass of that atom in ensemble entry r - 1 and the index r - 1
IsRecordOf(rec, r) ==
    /\ Len(rec) = Len(samp_charges_list[r])
    /\ \A a \in 1..Len(rec) :
         /\ rec[a][4] = samp_charges_list[r][a]
         /\ rec[a][5] = samp_masses_list[r][a]
         /\ rec[a][6] = r - 1

\* C2: during run_sims the number of records appended is sim_counter, or
\* sim_counter + 1 between store and increment; the trajectories are taken in
\* ensemble order, the cursor naming the one being integrated; record k holds
\* one row per atom with index k and the charges and masses of entry k; a run
\* that completes leaves exactly one record per trajectory
C2_SequentialRecords ==
    RunCurrent =>
        /\ Len(output_list) = IF pc = "run_incr" THEN sim_counter + 1 ELSE sim_counter
        /\ it = sim_counter
        /\ Len(output_list) <= Len(samp_y0_list)
        /\ \A r \in 1..Len(output_list) : IsRecordOf(output_list[r], r)
        /\ RunCompleted => Len(output_list) = Len(samp_y0_list)

\* a run over MaxGeoms trajectories of different channels completed
C2_Witness ==
    /\ RunCompleted
    /\ Len(samp_y0_list) = MaxGeoms
    /\ Len(output_list) = MaxGeoms
    /\ output_list[1][1][4] /= output_list[2][1][4]
    /\ output_list[2][1][6] = 1

(***************************************************************************)
(* The equations of motion.                                                *)
(***************************************************************************)
InitForce == InitWith({GeomA})

NextForce ==
    \/ NotRunYet /\ set_channel_list(TwoChannels(eq_geometry.natoms))
    \/ \E ng \in 1..MaxGeoms :
          NotRunYet /\ generate_pool_begin(ng, "gaussian", FALSE, [kind |-> "array", v |-> <<0, 1>>], 3, 0, 5)
    \/ generate_pool_gaussian
    \/ generate_pool_end
    \/ NotRunYet /\ make_timebins(<< <<0, 1>> >>, <<2>>)
    \/ run_sims_begin(FALSE)
    \/ run_sims_integrate
    \/ run_sims_store
    \/ run_sims_incr
    \/ run_sims_end

SpecForce == InitForce /\ [][NextForce]_vars

\* the solver has just called NewtonEquations on eval_y and got dydt
CallbackReturned == op = "run_sims" /\ pc = "run_store"

NAtomsOf(y) == Len(y) \div 6
AtomPos(y, a) == << y[3 * (a - 1) + 1], y[3 * (a - 1) + 2], y[3 * (a - 1) + 3] >>
Dist2(y, a, b) == Dot3(Vec3Sub(AtomPos(y, a), AtomPos(y, b)), Vec3Sub(AtomPos(y, a), AtomPos(y, b)))

\* component c of the sum over b /= a of k q_a q_b (r_a - r_b) / |r_a - r_b|^3,
\* one numerator per distinct |r_a - r_b|^2
ExpectedForce(y, q, a, c) ==
    [d \in { Dist2(y, a, b) : b \in (1..NAtomsOf(y)) \ {a} } |->
        SeqSum([b \in 1..NAtomsOf(y) |->
                  IF b /= a /\ Dist2(y, a, b) = d
                  THEN k * q[a] * q[b] * (AtomPos(y, a)[c] - AtomPos(y, b)[c])
                  ELSE 0])]

VelocityHalf ==
    /\ Len(dydt) = Len(eval_y)
    /\ \A x \in 1..(3 * NAtomsOf(eval_y)) : dydt[x] = eval_y[3 * NAtomsOf(eval_y) + x]

\* the charges and masses are those of the entry being integrated
AccelerationBlock ==
    \A a \in 1..NAtomsOf(eval_y), c \in 1..3 :
        dydt[3 * NAtomsOf(eval_y) + 3 * (a - 1) + c]
          = [force |-> ExpectedForce(eval_y, samp_charges_list[it + 1], a, c),
             mass  |-> samp_masses_list[it + 1][a]]

\* the accelerations times the masses sum to zero: every term is finite
\* (no zero distance) and the numerators over each distance cancel
MomentumRateZero ==
    LET n == NAtomsOf(eval_y)
        f(a, c) == dydt[3 * n + 3 * (a - 1) + c].force
    IN \A c \in 1..3 :
         /\ \A a \in 1..n : 0 \notin DOMAIN f(a, c)
         /\ \A d \in UNION { DOMAIN f(a, c) : a \in 1..n } :
              SeqSum([a \in 1..n |-> IF d \in DOMAIN f(a, c) THEN f(a, c)[d] ELSE 0]) = 0

NoTwoAtomsCoincide ==
    \A a, b \in 1..NAtomsOf(eval_y) : a /= b => Dist2(eval_y, a, b) /= 0

\* C9 (as claimed): for every state y the derivative has the length of y, its
\* first half is the velocity half of y, the acceleration of atom a is the sum
\* over b /= a of the Coulomb forces with the charges of the entry being
\* integrated, over its mass, and the mass-weighted accelerations sum to zero
C9_Derivative ==
    CallbackReturned => VelocityHalf /\ AccelerationBlock /\ MomentumRateZero

\* C9 (amended): the same, the zero sum holding for states in which no two
\* atoms are at the same position
C9_DerivativeApart ==
    CallbackReturned =>
        /\ VelocityHalf
        /\ AccelerationBlock
        /\ NoTwoAtomsCoincide => MomentumRateZero

\* the callback ran on the second trajectory, of another channel than the
\* first, with the atoms apart and a nonzero force between them
C9_Witness ==
    /\ CallbackReturned
    /\ it = 1
    /\ samp_charges_list[1] /= samp_charges_list[2]
    /\ NoTwoAtomsCoincide
    /\ \E d \in DOMAIN dydt[7].force : dydt[7].force[d] /= 0

(***************************************************************************)
(* The rejection loop of the Wigner method.                                *)
(***************************************************************************)
InitRejection == InitWith({GeomW})

NextRejection ==
    \/ \E ng \in 0..MaxGeoms, wsm \in {0, 1}, Ta \in {0, 1}, nm \in 1..MaxN :
          generate_pool_begin(ng, "wigner", FALSE, [kind |-> "number", v |-> 0], wsm, Ta, nm)
    \/ generate_pool_wigner_start
    \/ generate_pool_wigner_mode
    \/ generate_pool_wigner_draw
    \/ generate_pool_wigner_emit
    \/ generate_pool_end

\* a pass of the rejection loop whose draw is accepted
AcceptedDraw == generate_pool_wigner_draw /\ pc' = "wig_mode"

\* the interpreter keeps running the call; of the draws, one that can be
\* accepted is eventually made while there is one
SpecRejection ==
    /\ InitRejection
    /\ [][NextRejection]_vars
    /\ WF_vars(generate_pool_wigner_start)
    /\ WF_vars(generate_pool_wigner_mode)
    /\ WF_vars(generate_pool_wigner_emit)
    /\ WF_vars(generate_pool_end)
    /\ WF_vars(AcceptedDraw)

WignerRunning == op = "generate_pool" /\ method = "wigner" /\ pc /= "idle"
InRejectionLoop == WignerRunning /\ pc = "wig_draw"

\* some (P, Q) of the sampling box has W(P, Q, n) > 0, so that a threshold
\* below it can be drawn
AcceptableExists ==
    \E P \in UniformDraws(wigner_sample_max), Q \in UniformDraws(wigner_sample_max) :
        calc_W(P, Q, n_vib) > 0

NeverAccepting == InRejectionLoop /\ ~AcceptableExists

\* the modes of one trajectory
NModes == Len(eq_geometry.nmodes_weighted)

\* the displaced geometry is the centred equilibrium plus the displacement of
\* one accepted Q for each mode done so far of this trajectory, and
\* samp_q_list holds one Q per mode done of every trajectory
OneQPerModeDone ==
    LET done == IF pc \in {"wig_mode", "wig_draw"} THEN mode_idx - 1 ELSE 0
        g == eq_geometry
    IN /\ Len(samp_q_list) = i * NModes + done
       /\ pc \in {"wig_mode", "wig_draw"} =>
            \A a \in 1..g.natoms, c \in 1..3 :
               new_geom[a][c] = g.atom_coords_com[a][c]
                  + SeqSum([m \in 1..done |->
                       WignerDisplacement(samp_q_list[i * NModes + m], g.omegas[m],
                                          g.nmodes_weighted[m][a][c], g.atom_masses[a])])

\* a pass of the loop either changes nothing of the geometry and stays in the
\* loop, or accepts a Q with W > 0 and moves to the next mode
LoopStep ==
    InRejectionLoop =>
        \/ pc' = "wig_draw" /\ UNCHANGED <<new_geom, samp_q_list, mode_idx, i>>
        \/ /\ pc' = "wig_mode"
           /\ mode_idx' = mode_idx + 1
           /\ Len(samp_q_list') = Len(samp_q_list) + 1
           /\ \E P \in UniformDraws(wigner_sample_max) :
                 calc_W(P, samp_q_list'[Len(samp_q_list')], n_vib) > 0

PoolComplete == PoolReturned /\ Len(samp_y0_list) = n_geoms /\ Len(samp_q_list) = n_geoms * NModes

\* C11: the rejection loop is left only by an accepted draw; one accepted Q
\* per mode per trajectory is added to the geometry and to samp_q_list, and a
\* rejected draw changes nothing; a running call whose loops always have an
\* acceptable draw eventually returns with n_geoms entries, and a loop with no
\* acceptable draw is never left
C11_RejectionLoop ==
    /\ []((op = "generate_pool" /\ method = "wigner" /\ result /= "AssertionError") => OneQPerModeDone)
    /\ [][LoopStep]_vars
    /\ [][NeverAccepting => NeverAccepting']_vars
    /\ (InRejectionLoop /\ AcceptableExists) ~> ~InRejectionLoop
    /\ WignerRunning ~> (PoolComplete \/ NeverAccepting)

\* a pool of MaxGeoms trajectories returned in which the level n = 1 was
\* used, whose draws at P = Q = 0 are rejected
C11_Witness ==
    /\ PoolComplete
    /\ method = "wigner"
    /\ n_geoms = MaxGeoms
    /\ wigner_sample_max = 1
    /\ 1 \in h_n_used
    /\ \E j \in 1..Len(samp_q_list) : samp_q_list[j] /= 0

(***************************************************************************)
(* The output table.                                                       *)
(***************************************************************************)
InitOutput == InitWith({GeomB})

\* the largest pool of the runs that are tabulated
OutputGeoms == MaxGeoms - 1

NextOutput ==
    \/ NotRunYet /\ set_channel_list(TwoChannels(eq_geometry.natoms))
    \/ \E ng \in 0..OutputGeoms :
          generate_pool_begin(ng, "gaussian", FALSE, [kind |-> "number", v |-> 0], 3, 0, 5)
    \/ generate_pool_gaussian
    \/ generate_pool_end
    \/ NotRunYet /\ make_timebins(<< <<0, 1>> >>, <<2>>)
    \/ run_sims_begin(FALSE)
    \/ run_sims_integrate
    \/ run_sims_store
    \/ run_sims_incr
    \/ run_sims_end
    \/ output_list_to_arr
    \/ output_list_to_df

SpecOutput == InitOutput /\ [][NextOutput]_vars

TableProduced == op = "output_list_to_df" /\ result = "ok"

\* the most recent run_sims call completed: output_list is what it left
LastRunCompleted == h_last_run.done /\ output_list = h_last_run.records

\* the table has one row per atom per record, in record order
IsTableOf(table, records) ==
    LET natoms == eq_geometry.natoms
    IN /\ Len(table) = Len(records) * natoms
       /\ \A r \in 1..Len(records), a \in 1..natoms :
             table[(r - 1) * natoms + a] = records[r][a]

\* C12 (as claimed): the table output_list_to_df produces after a completed
\* run holds exactly the records of that run, one row per atom per trajectory
\* in trajectory order, whatever calls came before
C12_TableIsLastRun ==
    (TableProduced /\ LastRunCompleted) => IsTableOf(output_df, h_last_run.records)

====
